---- MODULE Spec2Model ----
(***************************************************************************)
(* Model of src/React-comp1/src/App.tsx: the DataTable component (sort     *)
(* state, selection set, render branches, onRowSelect callback) and the    *)
(* InputField component (clear control, password-visibility flag).         *)
(*                                                                         *)
(* A function component is modelled as React runs it: the useState cells   *)
(* hold the latest state, a render binds the cells and the props to the    *)
(* constants the handlers close over, and a handler runs against the       *)
(* constants of the last render.  A change of props is a render by the     *)
(* parent.                                                                 *)
(***************************************************************************)
EXTENDS Integers, Sequences, FiniteSets, TLC

\* ---------------------------------------------------------------- bounds
\* row identifiers of the tables the interaction runs mount
NumIds == 2
\* rows of the arrays the sorting runs mount
MaxRows == 3
\* values of the sorted field
MaxVal == 2

VARIABLES
    \* DataTable props
    data, loading, selectable, hasOnRowSelect,
    \* DataTable useState cells
    sortConfig, selectedRows,
    \* DataTable: what the last render bound and returned
    view,
    \* DataTable observation: the onRowSelect calls of the last step, the
    \* header last clicked, the last toggleRow call
    calls, lastSortClick, lastToggle,
    \* InputField props
    value, clearable, disabled, inputLoading, type, hasOnChange,
    \* InputField useState cell
    showPassword,
    \* InputField: what the last render returned
    inputView,
    \* InputField observation: the onChange calls of the last step
    inputCalls

tableVars == <<data, loading, selectable, hasOnRowSelect, sortConfig,
               selectedRows, view, calls, lastSortClick, lastToggle>>
inputVars == <<value, clearable, disabled, inputLoading, type, hasOnChange,
               showPassword, inputView, inputCalls>>
vars == <<tableVars, inputVars>>

\* ------------------------------------------------------------ data model
Vals == 1..MaxVal

\* T extends { id: string | number }: a row with its identifier and one field
Row == [id : 1..MaxRows, name : Vals]

\* the columns prop: two sortable descriptors on distinct fields, a second
\* sortable descriptor on the field of another, and a non-sortable one
columns ==
    { [key |-> "c_id",    dataIndex |-> "id",   sortable |-> TRUE],
      [key |-> "c_name",  dataIndex |-> "name", sortable |-> TRUE],
      [key |-> "c_name2", dataIndex |-> "name", sortable |-> TRUE],
      [key |-> "c_plain", dataIndex |-> "name", sortable |-> FALSE] }

\* useState<{key, direction} | null>(null): the null sort state
Null == [key |-> "null", direction |-> "null"]

RowIds(d) == { d[i].id : i \in 1..Len(d) }

UniqueIds(d) == \A i, j \in 1..Len(d) : d[i].id = d[j].id => i = j

\* the data prop of the sorting runs: every array of rows with unique ids
DataArrays ==
    { d \in UNION { [1..n -> Row] : n \in 0..MaxRows } : UniqueIds(d) }

\* the data prop of the interaction runs: one row per identifier, any
\* subset of the rows in any order
TableRows == { [id |-> i, name |-> (i % MaxVal) + 1] : i \in 1..NumIds }

TableData ==
    { d \in UNION { [1..n -> TableRows] : n \in 0..NumIds } : UniqueIds(d) }

\* ------------------------------------------------------------- DataTable
\* the comparator passed to Array.prototype.sort
ComparatorNoDirection(a, b, sc) ==
    IF a[sc.key] < b[sc.key] THEN -1
    ELSE IF a[sc.key] > b[sc.key] THEN 1
    ELSE 0

Comparator(a, b, sc) ==
    IF a[sc.key] < b[sc.key] THEN (IF sc.direction = "asc" THEN -1 ELSE 1)
    ELSE IF a[sc.key] > b[sc.key] THEN (IF sc.direction = "asc" THEN 1 ELSE -1)
    ELSE 0

\* Array.prototype.sort, a stable sort: x goes after every element the
\* comparator does not put after it
RECURSIVE Insert(_, _, _)
Insert(s, x, sc) ==
    IF s = <<>> THEN <<x>>
    ELSE IF Comparator(s[Len(s)], x, sc) > 0
         THEN Append(Insert(SubSeq(s, 1, Len(s) - 1), x, sc), s[Len(s)])
         ELSE Append(s, x)

RECURSIVE ArraySort(_, _)
ArraySort(s, sc) ==
    IF s = <<>> THEN <<>>
    ELSE Insert(ArraySort(SubSeq(s, 1, Len(s) - 1), sc), s[Len(s)], sc)

\* useMemo body: the displayed rows, and the data array as the call leaves it
SortedData(d, sc) ==
    IF sc = Null THEN [sorted |-> d, data |-> d]
    ELSE [sorted |-> ArraySort(d, sc), data |-> d]

\* the updater handleSort passes to setSortConfig
HandleSortNoFlip(prev, key) ==
    [key |-> key, direction |-> "asc"]

HandleSortThreeState(prev, key) ==
    IF prev.key = key
    THEN (IF prev.direction = "asc" THEN [key |-> key, direction |-> "desc"]
          ELSE Null)
    ELSE [key |-> key, direction |-> "asc"]

HandleSort(prev, key) ==
    IF prev.key = key
    THEN [key |-> key,
          direction |-> IF prev.direction = "asc" THEN "desc" ELSE "asc"]
    ELSE [key |-> key, direction |-> "asc"]

\* the state cells after the onClick of a header cell
OnHeaderClickResets(sc, sel, col) ==
    [sortConfig |-> IF col.sortable THEN HandleSort(sc, col.dataIndex) ELSE sc,
     selectedRows |-> IF col.sortable THEN {} ELSE sel]

OnHeaderClick(sc, sel, col) ==
    [sortConfig |-> IF col.sortable THEN HandleSort(sc, col.dataIndex) ELSE sc,
     selectedRows |-> sel]

\* toggleRow: the new Set built from the selectedRows the handler closes over
NewSelectionAddOnly(selected, id) ==
    selected \cup {id}

NewSelection(selected, id) ==
    IF id \in selected THEN selected \ {id} ELSE selected \cup {id}

\* data.filter((row) => newSelection.has(row.id))
RECURSIVE Filter(_, _)
Filter(d, sel) ==
    IF d = <<>> THEN <<>>
    ELSE IF d[1].id \in sel THEN <<d[1]>> \o Filter(Tail(d), sel)
         ELSE Filter(Tail(d), sel)

\* the onRowSelect calls one toggleRow makes
OnRowSelectCallsStale(has, d, selected, newSelection) ==
    IF has THEN << Filter(d, selected) >> ELSE <<>>

OnRowSelectCalls(has, d, selected, newSelection) ==
    IF has THEN << Filter(d, newSelection) >> ELSE <<>>

\* the argument the checkbox of the i-th displayed row passes to toggleRow
CheckboxArgIndex(rows, i) == i - 1

CheckboxArg(rows, i) == rows[i].id

\* the render branches
RenderModeEmptyFirst(l, d) ==
    IF Len(d) = 0 THEN "empty"
    ELSE IF l THEN "loading"
    ELSE "populated"

RenderMode(l, d) ==
    IF l THEN "loading"
    ELSE IF ~l /\ Len(d) = 0 THEN "empty"
    ELSE "populated"

\* one run of the component function over props and state cells
RenderView(d, l, sc, sel) ==
    [mode |-> RenderMode(l, d),
     sortConfig |-> sc,
     selectedRows |-> sel,
     sortedData |-> SortedData(d, sc).sorted]

NoToggle == [id |-> 0, before |-> {}, prior |-> <<>>]

\* the state cells and observations of a mounted table
Mounted ==
    /\ sortConfig = Null
    /\ selectedRows = {}
    /\ view = RenderView(data, loading, sortConfig, selectedRows)
    /\ calls = <<>>
    /\ lastSortClick = "none"
    /\ lastToggle = NoToggle

TableInit ==
    /\ data \in TableData
    /\ loading \in BOOLEAN
    /\ selectable \in BOOLEAN
    /\ hasOnRowSelect \in BOOLEAN
    /\ Mounted

\* React re-runs the component after a state update
Render ==
    /\ view # RenderView(data, loading, sortConfig, selectedRows)
    /\ view' = RenderView(data, loading, sortConfig, selectedRows)
    /\ data' = SortedData(data, sortConfig).data
    /\ calls' = <<>>
    /\ UNCHANGED <<loading, selectable, hasOnRowSelect, sortConfig,
                   selectedRows, lastSortClick, lastToggle>>
    /\ UNCHANGED inputVars

\* the parent renders the table with another data array
SetData(d) ==
    /\ d # data
    /\ view' = RenderView(d, loading, sortConfig, selectedRows)
    /\ data' = SortedData(d, sortConfig).data
    /\ calls' = <<>>
    /\ UNCHANGED <<loading, selectable, hasOnRowSelect, sortConfig,
                   selectedRows, lastSortClick, lastToggle>>
    /\ UNCHANGED inputVars

\* the parent renders the table with the other loading flag
SetLoading ==
    /\ loading' = ~loading
    /\ view' = RenderView(data, loading', sortConfig, selectedRows)
    /\ data' = SortedData(data, sortConfig).data
    /\ calls' = <<>>
    /\ UNCHANGED <<selectable, hasOnRowSelect, sortConfig, selectedRows,
                   lastSortClick, lastToggle>>
    /\ UNCHANGED inputVars

\* onClick of a rendered header cell
HeaderClick(col) ==
    /\ view.mode = "populated"
    /\ LET st == OnHeaderClick(sortConfig, selectedRows, col)
       IN /\ sortConfig' = st.sortConfig
          /\ selectedRows' = st.selectedRows
    /\ lastSortClick' = IF col.sortable THEN col.key ELSE lastSortClick
    /\ calls' = <<>>
    /\ UNCHANGED <<data, loading, selectable, hasOnRowSelect, view,
                   lastToggle>>
    /\ UNCHANGED inputVars

\* onChange of the checkbox of the i-th displayed row
ToggleRow(i) ==
    /\ view.mode = "populated"
    /\ selectable
    /\ i \in 1..Len(view.sortedData)
    /\ LET id == CheckboxArg(view.sortedData, i)
           newSelection == NewSelection(view.selectedRows, id)
       IN /\ selectedRows' = newSelection
          /\ calls' = OnRowSelectCalls(hasOnRowSelect, data,
                                       view.selectedRows, newSelection)
          /\ lastToggle' =
                [id |-> id,
                 before |-> view.selectedRows,
                 prior |-> IF lastToggle.id = id
                              /\ view.selectedRows = selectedRows
                           THEN <<lastToggle.before>> ELSE <<>>]
    /\ UNCHANGED <<data, loading, selectable, hasOnRowSelect, sortConfig,
                   view, lastSortClick>>
    /\ UNCHANGED inputVars

\* the table left alone
TableIdle ==
    /\ data = <<>>
    /\ loading = FALSE
    /\ selectable = FALSE
    /\ hasOnRowSelect = FALSE
    /\ Mounted

Next ==
    \/ Render
    \/ \E d \in TableData : SetData(d)
    \/ SetLoading
    \/ \E col \in columns : HeaderClick(col)
    \/ \E i \in 1..NumIds : ToggleRow(i)

\* the table mounted with any array and sorted by header clicks
SortInit ==
    /\ data \in DataArrays
    /\ loading \in BOOLEAN
    /\ selectable = FALSE
    /\ hasOnRowSelect = FALSE
    /\ Mounted

NextSort ==
    \/ Render
    \/ SetLoading
    \/ \E col \in columns : HeaderClick(col)

\* ------------------------------------------------------------ InputField
\* the value prop: absent, empty, or text
Undefined == "undefined"
Values == {Undefined, "", "a", "ab"}
Types == {"text", "password"}

\* JavaScript truthiness of the value prop
Truthy(v) == v # Undefined /\ v # ""

\* clearable && value && !disabled && !loading
ClearShownIgnoresLoading(c, v, d, l) == c /\ Truthy(v) /\ ~d

ClearShown(c, v, d, l) == c /\ Truthy(v) /\ ~d /\ ~l

\* type === "password" && !loading
PasswordToggleShown(t, l) == t = "password" /\ ~l

\* type === "password" && showPassword ? "text" : type
EffectiveType(t, show) == IF t = "password" /\ show THEN "text" ELSE t

\* the clear button's onClick: onChange?.({ target: { value: "" } })
ClearCalls(has) == IF has THEN <<"">> ELSE <<>>

\* one run of the component function over props and state cell
RenderInputView(c, v, d, l, t, show) ==
    [clearShown |-> ClearShown(c, v, d, l),
     toggleShown |-> PasswordToggleShown(t, l),
     inputType |-> EffectiveType(t, show),
     inputDisabled |-> (d \/ l)]

InputInit ==
    /\ value \in Values
    /\ clearable \in BOOLEAN
    /\ disabled \in BOOLEAN
    /\ inputLoading \in BOOLEAN
    /\ type \in Types
    /\ hasOnChange \in BOOLEAN
    /\ showPassword = FALSE
    /\ inputView = RenderInputView(clearable, value, disabled, inputLoading,
                                   type, showPassword)
    /\ inputCalls = <<>>

\* the input left alone
InputIdle ==
    /\ value = Undefined
    /\ clearable = FALSE
    /\ disabled = FALSE
    /\ inputLoading = FALSE
    /\ type = "text"
    /\ hasOnChange = FALSE
    /\ showPassword = FALSE
    /\ inputView = RenderInputView(clearable, value, disabled, inputLoading,
                                   type, showPassword)
    /\ inputCalls = <<>>

\* React re-runs the component after setShowPassword
RenderInput ==
    /\ inputView # RenderInputView(clearable, value, disabled, inputLoading,
                                   type, showPassword)
    /\ inputView' = RenderInputView(clearable, value, disabled, inputLoading,
                                    type, showPassword)
    /\ inputCalls' = <<>>
    /\ UNCHANGED <<value, clearable, disabled, inputLoading, type,
                   hasOnChange, showPassword>>
    /\ UNCHANGED tableVars

\* the parent renders the field with other props
SetInputProps(v, c, d, l) ==
    /\ <<v, c, d, l>> # <<value, clearable, disabled, inputLoading>>
    /\ value' = v
    /\ clearable' = c
    /\ disabled' = d
    /\ inputLoading' = l
    /\ inputView' = RenderInputView(c, v, d, l, type, showPassword)
    /\ inputCalls' = <<>>
    /\ UNCHANGED <<type, hasOnChange, showPassword>>
    /\ UNCHANGED tableVars

\* onClick of the rendered clear button
ClickClear ==
    /\ inputView.clearShown
    /\ inputCalls' = ClearCalls(hasOnChange)
    /\ UNCHANGED <<value, clearable, disabled, inputLoading, type,
                   hasOnChange, showPassword, inputView>>
    /\ UNCHANGED tableVars

\* onClick of the rendered password toggle: setShowPassword((prev) => !prev)
ClickPasswordToggle ==
    /\ inputView.toggleShown
    /\ showPassword' = ~showPassword
    /\ inputCalls' = <<>>
    /\ UNCHANGED <<value, clearable, disabled, inputLoading, type,
                   hasOnChange, inputView>>
    /\ UNCHANGED tableVars

\* the user edits the native input, which relays onChange
TypeText(v) ==
    /\ ~inputView.inputDisabled
    /\ v # Undefined
    /\ inputCalls' = IF hasOnChange THEN <<v>> ELSE <<>>
    /\ UNCHANGED <<value, clearable, disabled, inputLoading, type,
                   hasOnChange, showPassword, inputView>>
    /\ UNCHANGED tableVars

NextInput ==
    \/ RenderInput
    \/ \E v \in Values, c, d, l \in BOOLEAN : SetInputProps(v, c, d, l)
    \/ ClickClear
    \/ ClickPasswordToggle
    \/ \E v \in Values : TypeText(v)

\* -------------------------------------------------------- specifications
\* the DataTable in use, the InputField left alone
Init == TableInit /\ InputIdle
Spec == Init /\ [][Next]_vars

\* the DataTable sorting any array, the InputField left alone
InitSort == SortInit /\ InputIdle
SpecSort == InitSort /\ [][NextSort]_vars

\* the InputField in use, the DataTable left alone
InitInput == TableIdle /\ InputInit
SpecInput == InitInput /\ [][NextInput]_vars

\* ------------------------------------------------------------ properties
SymDiff(a, b) == (a \ b) \cup (b \ a)

Flipped(dir) == IF dir = "asc" THEN "desc" ELSE "asc"

\* position of row r in array d
Pos(d, r) == CHOOSE i \in 1..Len(d) : d[i] = r

\* s lists exactly the rows of d whose identifier is in sel, in d's order
SelectedInOrder(s, d, sel) ==
    /\ { s[i] : i \in 1..Len(s) } = { d[i] : i \in { k \in 1..Len(d) : d[k].id \in sel } }
    /\ \A i, j \in 1..Len(s) : i < j => Pos(d, s[i]) < Pos(d, s[j])

\* the dataIndex of the column descriptor with key k
DataIndexOf(k) == (CHOOSE col \in columns : col.key = k).dataIndex

\* C1 as stated: in every reachable state the selection set is a subset of
\* the identifiers of the rows of the current data array.
C1_SelectionSubsetOfData ==
    selectedRows \subseteq RowIds(data)

\* C1 amended: the selection set is empty on mount, and every step (row
\* toggle, header click, re-render, loading change, data change) that starts
\* with the selection inside the identifiers of the data and whose new data
\* array still holds every selected identifier ends with the selection
\* inside the identifiers of the new data array.
C1_SubsetKeptUnlessRowsDropped ==
    /\ selectedRows = {}
    /\ [][(/\ selectedRows \subseteq RowIds(data)
           /\ selectedRows \subseteq RowIds(data'))
          => selectedRows' \subseteq RowIds(data')]_vars

C1_Witness ==
    /\ calls # <<>>
    /\ lastToggle.id \in selectedRows
    /\ selectedRows \subseteq RowIds(data)
    /\ Len(data) > Cardinality(selectedRows)

\* C2 as stated: a click on the sortable descriptor clicked last flips the
\* direction and keeps the column; a click on any other sortable descriptor,
\* whatever its dataIndex, sets the sort state to (its dataIndex, ascending).
C2_OtherDescriptorResets ==
    [][\A col \in columns :
         (col.sortable /\ HeaderClick(col)) =>
            sortConfig' =
               IF lastSortClick = col.key
               THEN [key |-> sortConfig.key,
                     direction |-> Flipped(sortConfig.direction)]
               ELSE [key |-> col.dataIndex, direction |-> "asc"]]_vars

\* C2 amended: a click on a sortable descriptor whose dataIndex is the
\* active sort key flips the direction and keeps the key, also when the
\* descriptor is not the one clicked last; a click on a sortable descriptor
\* with another dataIndex sets the sort state to (its dataIndex, ascending).
C2_SameDataIndexFlips ==
    [][\A col \in columns :
         (col.sortable /\ HeaderClick(col)) =>
            sortConfig' =
               IF sortConfig # Null /\ sortConfig.key = col.dataIndex
               THEN [key |-> sortConfig.key,
                     direction |-> Flipped(sortConfig.direction)]
               ELSE [key |-> col.dataIndex, direction |-> "asc"]]_vars

C2_Witness ==
    /\ lastSortClick = "c_name2"
    /\ sortConfig = [key |-> "name", direction |-> "desc"]

\* C3: the displayed sequence is a permutation of the data array, equal to
\* it when no sort is active, otherwise ordered by the sort key in the sort
\* direction with rows of equal key in their data-array order; and no step
\* of a table that is only sorted and re-rendered changes the data array.
C3_StableSortOfCopy ==
    /\ [](LET s == view.sortedData
              sc == view.sortConfig
          IN /\ Len(s) = Len(data)
             /\ { s[i] : i \in 1..Len(s) } = { data[i] : i \in 1..Len(data) }
             /\ sc = Null => s = data
             /\ sc # Null =>
                  \A i, j \in 1..Len(s) : i < j =>
                     /\ sc.direction = "asc" => s[i][sc.key] <= s[j][sc.key]
                     /\ sc.direction = "desc" => s[i][sc.key] >= s[j][sc.key]
                     /\ s[i][sc.key] = s[j][sc.key]
                          => Pos(data, s[i]) < Pos(data, s[j]))
    /\ [][data' = data]_vars

C3_Witness ==
    /\ view.sortConfig = [key |-> "name", direction |-> "desc"]
    /\ view.sortedData # data
    /\ \E i, j \in 1..Len(data) : i < j /\ data[i].name = data[j].name

\* C4: a toggleRow with a callback supplied calls it exactly once, with the
\* rows of the data array whose identifier is in the selection set as the
\* toggle leaves it, in data-array order; without a callback nothing is
\* called.
C4_CallbackGetsNewSelection ==
    [][\A i \in 1..NumIds :
         ToggleRow(i) =>
            IF hasOnRowSelect
            THEN /\ Len(calls') = 1
                 /\ SelectedInOrder(calls'[1], data, selectedRows')
            ELSE calls' = <<>>]_vars

C4_Witness ==
    /\ calls # <<>>
    /\ Len(calls[1]) = 2
    /\ calls[1][1].id > calls[1][2].id

\* C5: the rendered branch is loading when the loading flag is set, empty
\* when it is not and the data array has no rows, populated otherwise.
C5_RenderMode ==
    /\ view.mode \in {"loading", "empty", "populated"}
    /\ loading => view.mode = "loading"
    /\ (~loading /\ Len(data) = 0) => view.mode = "empty"
    /\ (~loading /\ Len(data) > 0) => view.mode = "populated"

C5_Witness ==
    /\ loading
    /\ data = <<>>
    /\ view.mode = "loading"
    /\ sortConfig # Null
    /\ selectedRows # {}

\* C6: the clear control is rendered exactly when clearable is set, the
\* value is non-empty and the field is neither disabled nor loading; a click
\* on it calls the change handler once with the empty string as target value
\* and leaves showPassword and the rendered field as they are.
C6_ClearControl ==
    /\ [](inputView.clearShown <=>
            (/\ clearable
             /\ value \notin {Undefined, ""}
             /\ ~disabled
             /\ ~inputLoading))
    /\ [][ClickClear =>
            /\ hasOnChange => inputCalls' = <<"">>
            /\ showPassword' = showPassword
            /\ inputView' = inputView]_vars

C6_Witness ==
    /\ inputCalls = <<"">>
    /\ inputView.clearShown
    /\ showPassword

\* C7: a toggle of row r invoked on the rendered selection set S, then a
\* re-render, then a second toggle of r with no toggle in between, leaves
\* the selection set equal to S.
C7_ToggleTwiceRestores ==
    lastToggle.prior # <<>> => selectedRows = lastToggle.prior[1]

C7_Witness ==
    /\ lastToggle.prior # <<>>
    /\ lastToggle.id \in selectedRows
    /\ Cardinality(selectedRows) = 2

\* C8: the selection set is empty on mount; a step changes it only if it is
\* a row toggle; header clicks, loading changes and data changes leave it
\* alone; a row toggle leaves the sort state alone; a re-render with no
\* toggle pending leaves every checkbox as it was.
C8_SelectionFrame ==
    /\ selectedRows = {}
    /\ [][/\ selectedRows' # selectedRows => \E i \in 1..NumIds : ToggleRow(i)
          /\ \A col \in columns : HeaderClick(col) => selectedRows' = selectedRows
          /\ SetLoading => selectedRows' = selectedRows
          /\ \A i \in 1..NumIds : ToggleRow(i) => sortConfig' = sortConfig
          /\ (Render /\ view.selectedRows = selectedRows)
               => view'.selectedRows = view.selectedRows]_vars

C8_Witness ==
    /\ selectedRows # {}
    /\ view.selectedRows = selectedRows
    /\ view.sortConfig # Null
    /\ view.sortedData # data

\* C9 as stated: a toggle of row b that follows a toggle of another row a,
\* with or without a re-render between them, leaves the selection set
\* differing from the set the first toggle was invoked on in exactly a and b,
\* and its callback reports the rows of that set.
C9_NoToggleLost ==
    [][\A i \in 1..NumIds :
         (ToggleRow(i) /\ lastToggle.id # 0 /\ lastToggle'.id # lastToggle.id)
         => LET both == SymDiff(lastToggle.before,
                                {lastToggle.id, lastToggle'.id})
            IN /\ selectedRows' = both
               /\ hasOnRowSelect => calls' = << Filter(data, both) >>]_vars

\* C10: the sort state is null exactly until the first click on a sortable
\* header, no step makes a non-null sort state null, the sort key is the
\* dataIndex of the sortable header clicked last, and the rows are shown in
\* input order while the rendered sort state is null.
C10_SortStateAbsorbing ==
    /\ [](/\ sortConfig = Null <=> lastSortClick = "none"
          /\ sortConfig # Null => sortConfig.key = DataIndexOf(lastSortClick)
          /\ view.sortConfig = Null => view.sortedData = data)
    /\ [][sortConfig # Null => sortConfig' # Null]_vars

C10_Witness ==
    /\ sortConfig = [key |-> "id", direction |-> "asc"]
    /\ lastSortClick = "c_id"
    /\ data = <<>>
    /\ selectedRows # {}
    /\ loading

====
